---- MODULE Spec2Model ----
(***************************************************************************)
(* cad_to_h5m (src/cad_to_h5m/core.py): the orchestration of one           *)
(* cad_to_h5m call against the Cubit kernel, and direct calls of           *)
(* find_reflecting_surfaces_of_reflecting_wedge.                           *)
(*                                                                         *)
(* Strings that the code inspects (file names, entity names) are sequences *)
(* of tokens: "a" is a run of ordinary characters, "/" the path separator, *)
(* ".h5m", ".stp", ... an extension, "@" the entity-name delimiter.        *)
(* Kernel commands are records [op, name, vols, num] appended to cmds.     *)
(***************************************************************************)
EXTENDS Integers, Sequences, FiniteSets, TLC

\* ---------------------------------------------------------------- bounds
\* longest output file name, in tokens
MaxNameLen == 3
\* most input entries in files_with_tags
MaxEntries == 2
\* most volumes one CAD file imports
MaxImport == 3
\* most volume IDs the kernel skips before an allocation
MaxGap == 1
\* most surfaces of the wedge volume
MaxSurface == 3
\* most direct calls of the reflecting-surface reconciliation
MaxCalls == 3

\* ------------------------------------------------------ program constants
TagLimit == 27
GraveyardPad == 5

\* ---------------------------------------------------------------- strings
None == <<"<None>">>

ExtTokens == {".h5m", ".stp", ".step", ".sat", ".exo", ".cub", ".cub5"}

NameAlphabet == {"a", "/", ".h5m", ".stp"}

\* all token sequences of length at most n over alphabet A
RECURSIVE SeqsUpTo(_, _)
SeqsUpTo(A, n) ==
    IF n = 0 THEN {<<>>}
    ELSE LET shorter == SeqsUpTo(A, n - 1)
         IN  shorter \cup {Append(s, t) : s \in {q \in shorter : Len(q) = n - 1}, t \in A}

\* str.endswith(ext) for an extension token
EndsWith(s, ext) == Len(s) > 0 /\ s[Len(s)] = ext

\* pathlib: Path(s).name, the last component, trailing separators dropped
RECURSIVE StripSlashes(_)
StripSlashes(s) ==
    IF Len(s) > 0 /\ s[Len(s)] = "/" THEN StripSlashes(SubSeq(s, 1, Len(s) - 1)) ELSE s

RECURSIVE AfterLastSlash(_)
AfterLastSlash(s) ==
    IF \E i \in 1..Len(s) : s[i] = "/"
    THEN AfterLastSlash(Tail(s))
    ELSE s

PathName(s) == AfterLastSlash(StripSlashes(s))

\* pathlib: Path(s).suffix is name[i:] for i = name.rfind("."), when
\* 0 < i < len(name) - 1, and "" otherwise
PathSuffix(s) ==
    LET name == PathName(s)
        dots == {i \in 1..Len(name) : name[i] \in ExtTokens}
    IN  IF dots = {} THEN <<>>
        ELSE LET i == CHOOSE k \in dots : \A j \in dots : j <= k
             IN  IF i > 1 THEN SubSeq(name, i, Len(name)) ELSE <<>>

\* os.path.split(s)[-1]
ShortName(s) == AfterLastSlash(s)

\* str(n) for the volume IDs of the model, and int(s) back
Digit == <<"0", "1", "2", "3", "4", "5", "6", "7", "8", "9">>

Str(n) ==
    IF n < 10 THEN Digit[n + 1]
    ELSE Digit[(n \div 10) + 1] \o Digit[(n % 10) + 1]

ParseInt(s) == CHOOSE n \in 0..99 : Str(n) = s

\* list(map(str, ids)): CPython iterates a set of small ints in ascending order
RECURSIVE StrList(_)
StrList(ids) ==
    IF ids = {} THEN <<>>
    ELSE LET m == CHOOSE x \in ids : \A y \in ids : x <= y
         IN  <<Str(m)>> \o StrList(ids \ {m})

SymmetricDifference(a, b) == (a \ b) \cup (b \ a)

RECURSIVE SumOf(_)
SumOf(ids) ==
    IF ids = {} THEN 0
    ELSE LET m == CHOOSE x \in ids : TRUE IN m + SumOf(ids \ {m})

\* a kernel command
Cmd(op, name, vs, num) == [op |-> op, name |-> name, vols |-> vs, num |-> num]

\* ------------------------------------------------------------------ state
VARIABLES
    args,              \* the keyword arguments of the cad_to_h5m call
    files_with_tags,   \* the entry list, mutated in place (geometry_details)
    pc,                \* the stage the call has reached
    err,               \* the exception that ended the call, "none" if none
    cmds,              \* the commands passed to cubit.cmd, in order
    imported,          \* cubit has been imported and initialised
    vols,              \* kernel: the IDs of the live volumes
    last_id,           \* kernel: the highest volume ID allocated so far
    shell,             \* kernel: the volumes that are the hollow graveyard shell
    all_vols,          \* loader: the last volume snapshot taken
    idx,               \* loader: the entry the loop is at
    total_number_of_volumes,
    volume_mat_list,   \* tagger: the (volumes, material) pairs appended
    sidecar,           \* the geometry details written as JSON, if any
    live_surfaces,     \* kernel: the surfaces of the wedge volume
    calls              \* direct calls of the reflecting-surface reconciliation

vars == <<args, files_with_tags, pc, err, cmds, imported, vols, last_id, shell,
          all_vols, idx, total_number_of_volumes, volume_mat_list, sidecar,
          live_surfaces, calls>>

kernel == <<vols, last_id, shell, live_surfaces>>

\* ----------------------------------------------------------------- inputs
NoneStr == "<None>"

\* the IDs the kernel may skip before allocating
Gaps == 0..MaxGap

Tag27 == "abcdefghijklmnopqrstuvwxyz0"
Tag28 == "abcdefghijklmnopqrstuvwxyz01"

NoMove == [shape |-> "none", vols |-> <<>>, nvecs |-> 0]

\* the shapes of a "move" value: a vector, (volumes, vector), (volumes, vectors)
MoveSpecs ==
    { [shape |-> "all", vols |-> <<>>, nvecs |-> 1],
      [shape |-> "subset", vols |-> <<1, 2>>, nvecs |-> 1],
      [shape |-> "each", vols |-> <<1, 2>>, nvecs |-> 2],
      [shape |-> "each", vols |-> <<1>>, nvecs |-> 2] }

Entry(name, isfile, keys, tag, transforms, move) ==
    [ cad_filename |-> name, is_file |-> isfile, keys |-> keys,
      material_tag |-> tag, transforms |-> transforms, move |-> move,
      volumes |-> <<>>, surface_reflectivity |-> <<>> ]

Tagged(tag) == Entry(<<"a", ".stp">>, TRUE, {"material_tag"}, tag, <<>>, NoMove)

Untagged == Entry(<<"a", ".sat">>, TRUE, {}, NoneStr, <<>>, NoMove)

DefArgs ==
    [ h5m_filename |-> <<"a", ".h5m">>,
      exo_filename |-> None,
      cubit_filename |-> None,
      cubit_importable |-> TRUE,
      verbose |-> TRUE,
      imprint |-> TRUE,
      make_watertight |-> TRUE,
      geometry_details_filename |-> None,
      implicit_complement_material_tag |-> NoneStr,
      graveyard |-> <<>> ]

\* -------------------------------------------------------- cad_to_h5m: start
Raise(e) ==
    /\ err' = e
    /\ pc' = "raised"

\* line 103: h5m_filename is None or Path(h5m_filename).suffix == ".h5m"
H5mNameAccepted(name) == name = None \/ PathSuffix(name) = <<".h5m">>

ExoNameAccepted(name) == name = None \/ PathSuffix(name) = <<".exo">>

CubitNameAccepted(name) ==
    name = None \/ PathSuffix(name) \in {<<".cub">>, <<".cub5">>}

\* lines 103-127: the three output file names are checked, in this order
Validate ==
    /\ pc = "validate"
    /\ IF ~H5mNameAccepted(args.h5m_filename) THEN Raise("ValueError:h5m_filename")
       ELSE IF ~ExoNameAccepted(args.exo_filename) THEN Raise("ValueError:exo_filename")
       ELSE IF ~CubitNameAccepted(args.cubit_filename)
            THEN Raise("ValueError:cubit_filename")
       ELSE pc' = "init" /\ err' = err
    /\ UNCHANGED <<args, files_with_tags, cmds, imported, kernel, all_vols, idx,
                   total_number_of_volumes, volume_mat_list, sidecar, calls>>

QuietCmds ==
    << Cmd("set echo off", <<>>, <<>>, 0), Cmd("set info off", <<>>, <<>>, 0),
       Cmd("set journal off", <<>>, <<>>, 0), Cmd("set warning off", <<>>, <<>>, 0) >>

\* lines 129-145: import cubit, cubit.init, the quiet settings
InitKernel ==
    /\ pc = "init"
    /\ IF ~args.cubit_importable
       THEN Raise("ImportError") /\ UNCHANGED <<imported, cmds>>
       ELSE /\ imported' = TRUE
            /\ cmds' = IF args.verbose THEN cmds ELSE cmds \o QuietCmds
            /\ pc' = "load"
            /\ err' = err
    /\ UNCHANGED <<args, files_with_tags, kernel, all_vols, idx,
                   total_number_of_volumes, volume_mat_list, sidecar, calls>>

\* ------------------------------- find_number_of_volumes_in_each_step_file
\* ImportType with `endswith(".stp") or ".step"`, which is always true
ImportTypeAlwaysStep(name) == "step"

\* lines 453-461: "" stands for the unsupported-format branch
ImportType(name) ==
    IF EndsWith(name, ".stp") \/ EndsWith(name, ".step") THEN "step"
    ELSE IF EndsWith(name, ".sat") THEN "acis"
    ELSE ""

\* kernel: the IDs of n volumes created after skipping g IDs
AllocIds(last, n, g) == (last + g + 1)..(last + g + n)

\* line 475 and lines 484-485
NewVols(current_vols, snapshot) == SymmetricDifference(current_vols, snapshot)

\* line 477
ShouldUnite(entry, new_vols) ==
    "material_tag" \in entry.keys /\ Cardinality(new_vols) > 1

\* kernel: the ID of the volume a unite of new_vols leaves, one of the united
\* or a newly allocated one
UniteSurvivors(new_vols, last) ==
    {CHOOSE m \in new_vols : \A y \in new_vols : m <= y} \cup {last + 1}

\* RecordedVolumes without the snapshot after the unite
RecordedBeforeUnite(current_vols, before_unite, after_unite) ==
    StrList(NewVols(current_vols, before_unite))

\* lines 484-487: what the entry records, given the snapshots
RecordedVolumes(current_vols, before_unite, after_unite) ==
    StrList(NewVols(current_vols, after_unite))

ImportCmds(entry) ==
    << Cmd("import " \o ImportType(entry.cad_filename), entry.cad_filename, <<>>, 0),
       Cmd("healer autoheal vol all", <<>>, <<>>, 0) >>

\* lines 449-500: one iteration of the loop over files_with_tags
LoadEntry ==
    /\ pc = "load"
    /\ idx <= Len(files_with_tags)
    /\ LET entry == files_with_tags[idx]
           current_vols == vols
       IN  IF ImportType(entry.cad_filename) = ""
           THEN /\ Raise("ValueError:unsupported_format")
                /\ UNCHANGED <<files_with_tags, cmds, vols, last_id, all_vols, idx>>
           ELSE IF ~entry.is_file
           THEN /\ Raise("FileNotFoundError")
                /\ UNCHANGED <<files_with_tags, cmds, vols, last_id, all_vols, idx>>
           ELSE \E n \in 1..MaxImport, g \in Gaps :
                LET top == last_id + g + n
                    before_unite == vols \cup AllocIds(last_id, n, g)
                    new_vols == NewVols(current_vols, before_unite)
                    unite == ShouldUnite(entry, new_vols)
                IN  \E s \in (IF unite THEN UniteSurvivors(new_vols, top) ELSE {0}) :
                    LET after_unite == IF unite THEN (before_unite \ new_vols) \cup {s}
                                       ELSE before_unite
                        recorded == RecordedVolumes(current_vols, before_unite, after_unite)
                    IN  /\ vols' = after_unite
                        /\ last_id' = IF s > top THEN s ELSE top
                        /\ all_vols' = after_unite
                        /\ files_with_tags' =
                               [files_with_tags EXCEPT ![idx].volumes = recorded]
                        /\ cmds' = cmds \o ImportCmds(entry)
                                   \o (IF unite
                                       THEN <<Cmd("unite", <<>>, StrList(new_vols), 0)>>
                                       ELSE <<>>)
                                   \o <<Cmd("group", ShortName(entry.cad_filename), recorded, 0)>>
                        \* line 495 calls find_all_surfaces_of_reflecting_wedge
                        \* without its verbose argument
                        /\ IF "surface_reflectivity" \in entry.keys
                           THEN Raise("TypeError:find_all_surfaces_of_reflecting_wedge")
                                /\ idx' = idx
                           ELSE idx' = idx + 1 /\ pc' = pc /\ err' = err
    /\ UNCHANGED <<args, imported, shell, live_surfaces, total_number_of_volumes,
                   volume_mat_list, sidecar, calls>>

\* line 508: sum(all_vols)
TotalNumberOfVolumes(snapshot) == SumOf(snapshot)

\* lines 501-508: after the loop; all_vols is unbound when the list is empty
LoadFinish ==
    /\ pc = "load"
    /\ idx > Len(files_with_tags)
    /\ cmds' = cmds \o << Cmd("separate body all", <<>>, <<>>, 0),
                          Cmd("validate vol all", <<>>, <<>>, 0) >>
    /\ IF Len(files_with_tags) = 0
       THEN Raise("UnboundLocalError:all_vols") /\ UNCHANGED total_number_of_volumes
       ELSE /\ total_number_of_volumes' = TotalNumberOfVolumes(all_vols)
            /\ pc' = "transform"
            /\ err' = err
    /\ UNCHANGED <<args, files_with_tags, imported, kernel, all_vols, idx,
                   volume_mat_list, sidecar, calls>>

\* ------------------------------------------------------- apply_transforms
StrSeq(ids) == [i \in 1..Len(ids) |-> Str(ids[i])]

\* lines 216-228: move_volume; num is the position of the vector used
MoveCmds(entry) ==
    LET mv == entry.move
    IN  IF mv.shape = "each"
        THEN [ k \in 1..(IF mv.nvecs < Len(mv.vols) THEN mv.nvecs ELSE Len(mv.vols)) |->
                 Cmd("move", <<>>, <<Str(mv.vols[k])>>, k) ]
        ELSE IF mv.shape = "subset"
        THEN <<Cmd("move", <<>>, StrSeq(mv.vols), 1)>>
        ELSE <<Cmd("move", <<>>, entry.volumes, 1)>>

\* line 221: entry["transforms"]["move"][0][vol] with more vectors than volumes
MoveRaises(entry) == entry.move.shape = "each" /\ entry.move.nvecs > Len(entry.move.vols)

HasKey(order, k) == \E i \in 1..Len(order) : order[i] = k

\* the keys of the transforms dict in the order move, scale, rotate
PriorityOrder(keys) ==
    SelectSeq(<<"move", "scale", "rotate">>, LAMBDA k : HasKey(keys, k))

\* line 203: the keys of the transforms dict, in insertion order
TransformOrder(keys) == keys

\* lines 203-209: the commands of one entry, until a sub-transform raises
RECURSIVE KeysCmds(_, _)
KeysCmds(entry, keys) ==
    IF keys = <<>> THEN [cmds |-> <<>>, raised |-> FALSE]
    ELSE LET k == Head(keys)
             this == IF k = "move" THEN MoveCmds(entry)
                     ELSE IF k = "scale" THEN <<Cmd("scale", <<>>, entry.volumes, 2)>>
                     ELSE IF k = "rotate" THEN <<Cmd("rotate", <<>>, entry.volumes, 180)>>
                     ELSE <<>>
         IN  IF k = "move" /\ MoveRaises(entry)
             THEN [cmds |-> this, raised |-> TRUE]
             ELSE LET rest == KeysCmds(entry, Tail(keys))
                  IN  [cmds |-> this \o rest.cmds, raised |-> rest.raised]

EntryTransformCmds(entry) ==
    IF "transforms" \in entry.keys
    THEN KeysCmds(entry, TransformOrder(entry.transforms))
    ELSE [cmds |-> <<>>, raised |-> FALSE]

\* lines 201-209: the loop over the entries
RECURSIVE AllTransformCmds(_)
AllTransformCmds(entries) ==
    IF entries = <<>> THEN [cmds |-> <<>>, raised |-> FALSE]
    ELSE LET first == EntryTransformCmds(Head(entries))
         IN  IF first.raised THEN first
             ELSE LET rest == AllTransformCmds(Tail(entries))
                  IN  [cmds |-> first.cmds \o rest.cmds, raised |-> rest.raised]

\* lines 200-210
ApplyTransforms ==
    /\ pc = "transform"
    /\ LET r == AllTransformCmds(files_with_tags)
       IN  IF r.raised
           THEN cmds' = cmds \o r.cmds /\ Raise("IndexError:move")
           ELSE /\ cmds' = cmds \o r.cmds \o <<Cmd("healer autoheal vol all", <<>>, <<>>, 0)>>
                /\ pc' = "tag"
                /\ err' = err
    /\ UNCHANGED <<args, files_with_tags, imported, kernel, all_vols, idx,
                   total_number_of_volumes, volume_mat_list, sidecar, calls>>

\* ------------------------------------------------- tag_geometry_with_mats
\* kernel: the entity names of imported volumes, "<part>@<letter>" or "<part>"
EntityNames == { <<"steel", "@", "A">>, <<"steel">>, <<Tag28, "@", "B">> }

\* line 412: entity_name().split('@')[0]
RECURSIVE BeforeAt(_)
BeforeAt(name) ==
    IF name = <<>> \/ Head(name) = "@" THEN ""
    ELSE Head(name) \o BeforeAt(Tail(name))

\* line 402: str.lower() on the tags of the model
Lower(tag) == IF tag \in {"Graveyard", "GRAVEYARD"} THEN "graveyard" ELSE tag

\* line 388
TagTooLong(tag) == Len(tag) > TagLimit

Pair(vs, tag) == [volumes |-> vs, material_tag |-> tag]

CompGroup(ic, vol) == Cmd("group", <<"mat:", ic, "_comp">>, <<vol>>, 0)

\* lines 411-419: one group per volume, named after the kernel's entity name
RECURSIVE UntaggedCmds(_, _)
UntaggedCmds(vs, mat_name) ==
    IF vs = <<>> THEN <<>>
    ELSE <<Cmd("group", <<"mat:", mat_name>>, <<Head(vs)>>, 0)>>
         \o UntaggedCmds(Tail(vs), mat_name)

\* EntryTag with the length of the tag checked after the group command
EntryTagCheckedLate(entry, ic, ename) ==
    IF "material_tag" \in entry.keys
    THEN [ cmds |-> <<Cmd("group", <<"mat:", entry.material_tag>>, entry.volumes, 0)>>,
           pairs |-> <<Pair(entry.volumes, entry.material_tag)>>,
           raised |-> TagTooLong(entry.material_tag) ]
    ELSE [ cmds |-> UntaggedCmds(entry.volumes, BeforeAt(ename)),
           pairs |-> [i \in 1..Len(entry.volumes) |->
                        Pair(<<entry.volumes[i]>>, BeforeAt(ename))],
           raised |-> FALSE ]

\* lines 386-419: the body of the loop for one entry
EntryTag(entry, ic, ename) ==
    IF "material_tag" \in entry.keys
    THEN IF TagTooLong(entry.material_tag)
         THEN [cmds |-> <<>>, pairs |-> <<>>, raised |-> TRUE]
         ELSE [ cmds |-> <<Cmd("group", <<"mat:", entry.material_tag>>, entry.volumes, 0)>>
                         \o (IF Lower(entry.material_tag) = "graveyard" /\ ic # NoneStr
                             THEN <<CompGroup(ic, entry.volumes[1])>>
                             ELSE <<>>),
                pairs |-> <<Pair(entry.volumes, entry.material_tag)>>,
                raised |-> FALSE ]
    ELSE [ cmds |-> UntaggedCmds(entry.volumes, BeforeAt(ename)),
           pairs |-> [i \in 1..Len(entry.volumes) |->
                        Pair(<<entry.volumes[i]>>, BeforeAt(ename))],
           raised |-> FALSE ]

\* lines 385-419: the loop, until an entry raises
RECURSIVE AllTags(_, _, _)
AllTags(entries, ic, enames) ==
    IF entries = <<>> THEN [cmds |-> <<>>, pairs |-> <<>>, raised |-> FALSE]
    ELSE LET first == EntryTag(Head(entries), ic, Head(enames))
         IN  IF first.raised THEN first
             ELSE LET rest == AllTags(Tail(entries), ic, Tail(enames))
                  IN  [ cmds |-> first.cmds \o rest.cmds,
                        pairs |-> first.pairs \o rest.pairs,
                        raised |-> rest.raised ]

\* lines 422-425: the IDs the code expects for the two bricks and the shell
GraveyardIds(entries) ==
    LET last == entries[Len(entries)]
        final_vol_number == ParseInt(last.volumes[Len(last.volumes)])
    IN  [ inner |-> final_vol_number + 1,
          outer |-> final_vol_number + 2,
          graveyard_volume_number |-> final_vol_number + 3 ]

\* lines 426-444: the commands of the graveyard synthesis
GraveyardCmds(side, ids, ic) ==
    << Cmd("create brick x", <<>>, <<>>, side),
       Cmd("create brick x", <<>>, <<>>, side + GraveyardPad),
       Cmd("subtract", <<>>, <<Str(ids.inner), Str(ids.outer)>>, 0),
       Cmd("group", <<"mat:", "Graveyard">>, <<Str(ids.graveyard_volume_number)>>, 0) >>
    \o (IF ic # NoneStr
        THEN <<CompGroup(ic, Str(ids.graveyard_volume_number))>>
        ELSE <<>>)

\* kernel: an entity name for the volumes of each entry whose name is read
EntryNames(entries) ==
    { f \in [1..Len(entries) -> EntityNames] :
        \A i \in 1..Len(entries) :
            "material_tag" \in entries[i].keys => f[i] = <<"steel">> }

\* lines 381-444
TagGeometry ==
    /\ pc = "tag"
    /\ \E enames \in EntryNames(files_with_tags) :
       LET ic == args.implicit_complement_material_tag
           r == AllTags(files_with_tags, ic, enames)
       IN  IF r.raised
           THEN /\ cmds' = cmds \o r.cmds
                /\ volume_mat_list' = r.pairs
                /\ Raise("ValueError:material_tag")
                /\ UNCHANGED <<vols, last_id, shell>>
           ELSE IF args.graveyard = <<>>
           THEN /\ cmds' = cmds \o r.cmds
                /\ volume_mat_list' = r.pairs
                /\ pc' = "clean"
                /\ err' = err
                /\ UNCHANGED <<vols, last_id, shell>>
           ELSE \E g1 \in Gaps, g2 \in Gaps :
                LET ids == GraveyardIds(files_with_tags)
                    b1 == last_id + g1 + 1
                    b2 == b1 + g2 + 1
                    bricks == vols \cup {b1, b2}
                    \* kernel: the subtraction acts only on two live volumes
                    acts == ids.inner \in bricks /\ ids.outer \in bricks
                IN  \E res \in (IF acts THEN {ids.outer, b2 + 1} ELSE {0}) :
                    /\ cmds' = cmds \o r.cmds \o GraveyardCmds(args.graveyard[1], ids, ic)
                    /\ volume_mat_list' = r.pairs
                    /\ vols' = IF acts THEN (bricks \ {ids.inner, ids.outer}) \cup {res}
                               ELSE bricks
                    /\ last_id' = IF res > b2 THEN res ELSE b2
                    /\ shell' = IF acts /\ ids.inner = b1 /\ ids.outer = b2
                                THEN {res} ELSE {}
                    /\ pc' = "clean"
                    /\ err' = err
    /\ UNCHANGED <<args, files_with_tags, imported, live_surfaces, all_vols, idx,
                   total_number_of_volumes, sidecar, calls>>

\* --------------------------------------------------------- imprint, merge
\* line 156
ShouldImprint(imprint, total) == imprint /\ total > 1

\* line 158
ShouldMerge(total) == total > 1

MergeCmds ==
    << Cmd("merge tolerance", <<>>, <<>>, 0),
       Cmd("merge vol all group_results", <<>>, <<>>, 0) >>

\* lines 156-159
ImprintMerge ==
    /\ pc = "clean"
    /\ cmds' = cmds
               \o (IF ShouldImprint(args.imprint, total_number_of_volumes)
                   THEN <<Cmd("imprint body all", <<>>, <<>>, 0)>> ELSE <<>>)
               \o (IF ShouldMerge(total_number_of_volumes) THEN MergeCmds ELSE <<>>)
    /\ pc' = "reflect"
    /\ UNCHANGED <<args, files_with_tags, err, imported, kernel, all_vols, idx,
                   total_number_of_volumes, volume_mat_list, sidecar, calls>>

\* --------------------------- find_reflecting_surfaces_of_reflecting_wedge
\* a surface_reflectivity dict: its items in insertion order
Keys(record) == {record[i].id : i \in 1..Len(record)}

\* lines 357-365: the first reflecting surface that is no longer live is
\* deleted during the iteration over the dict's keys
StaleAt(record, live) ==
    {i \in 1..Len(record) : record[i].reflector /\ record[i].id \notin live}

Without(record, i) == SubSeq(record, 1, i - 1) \o SubSeq(record, i + 1, Len(record))

\* lines 366-375: the live surfaces the record lacks, in ascending order
RECURSIVE Missing(_, _)
Missing(record, live) ==
    IF live \subseteq Keys(record) THEN <<>>
    ELSE LET m == CHOOSE x \in live \ Keys(record) :
                      \A y \in live \ Keys(record) : x <= y
         IN  <<m>> \o Missing(Append(record, [id |-> m, reflector |-> TRUE]), live)

AddedItems(ids) == [i \in 1..Len(ids) |-> [id |-> ids[i], reflector |-> TRUE]]

RECURSIVE AddedCmds(_, _)
AddedCmds(ids, name) ==
    IF ids = <<>> THEN <<>>
    ELSE << Cmd("group", <<name>>, <<"surf", Str(Head(ids))>>, 0),
            Cmd("surface visibility on", <<>>, <<"surf", Str(Head(ids))>>, 0) >>
         \o AddedCmds(Tail(ids), name)

\* lines 348-376: the reconciliation of one wedge entry
Reconcile(record, live, name) ==
    IF StaleAt(record, live) # {}
    THEN LET i == CHOOSE k \in StaleAt(record, live) :
                      \A j \in StaleAt(record, live) : k <= j
         IN  [record |-> Without(record, i), cmds |-> <<>>, raised |-> TRUE]
    ELSE LET ids == Missing(record, live)
         IN  [ record |-> record \o AddedItems(ids),
               cmds |-> AddedCmds(ids, name),
               raised |-> FALSE ]

\* lines 343-378: the first entry with a surface_reflectivity key, if any
FindReflecting(entries, live, name) ==
    LET wedges == {i \in 1..Len(entries) : "surface_reflectivity" \in entries[i].keys}
    IN  IF wedges = {}
        THEN [details |-> entries, cmds |-> <<>>, raised |-> FALSE]
        ELSE LET w == CHOOSE i \in wedges : \A j \in wedges : i <= j
                 r == Reconcile(entries[w].surface_reflectivity, live, name)
             IN  [ details |-> [entries EXCEPT ![w].surface_reflectivity = r.record],
                   cmds |-> r.cmds,
                   raised |-> r.raised ]

\* lines 162-164: the stage of cad_to_h5m
FindReflectingStage ==
    /\ pc = "reflect"
    /\ LET r == FindReflecting(files_with_tags, live_surfaces, "reflective")
       IN  /\ files_with_tags' = r.details
           /\ cmds' = cmds \o r.cmds
           /\ IF r.raised THEN Raise("RuntimeError:dict_changed_size")
              ELSE pc' = "save" /\ err' = err
    /\ UNCHANGED <<args, imported, kernel, all_vols, idx, total_number_of_volumes,
                   volume_mat_list, sidecar, calls>>

\* a direct call of find_reflecting_surfaces_of_reflecting_wedge
DirectCall ==
    /\ pc = "direct"
    /\ calls < MaxCalls
    /\ LET r == FindReflecting(files_with_tags, live_surfaces, "reflective")
       IN  /\ files_with_tags' = r.details
           /\ cmds' = cmds \o r.cmds
           /\ err' = IF r.raised THEN "RuntimeError:dict_changed_size" ELSE "none"
    /\ calls' = calls + 1
    /\ UNCHANGED <<args, pc, imported, kernel, all_vols, idx, total_number_of_volumes,
                   volume_mat_list, sidecar>>

\* ------------------------------------------------------ save_output_files
\* json.dump(geometry_details): the keys of each entry
Json(entries) ==
    [ i \in 1..Len(entries) |->
        [ cad_filename |-> entries[i].cad_filename,
          keys |-> entries[i].keys,
          material_tag |-> entries[i].material_tag,
          transforms |-> entries[i].transforms,
          volumes |-> entries[i].volumes ] ]

\* lines 190-197: the four commands for one volume of a tet_mesh entry
RECURSIVE TetVolumeCmds(_)
TetVolumeCmds(vs) ==
    IF vs = <<>> THEN <<>>
    ELSE << Cmd("volume size auto factor 6", <<>>, <<Head(vs)>>, 0),
            Cmd("volume all scheme tetmesh proximity layers off", <<>>, <<>>, 0),
            Cmd("volume tet_mesh", <<>>, <<Head(vs)>>, 0),
            Cmd("mesh volume", <<>>, <<Head(vs)>>, 0) >>
         \o TetVolumeCmds(Tail(vs))

RECURSIVE TetEntryCmds(_)
TetEntryCmds(entries) ==
    IF entries = <<>> THEN <<>>
    ELSE (IF "tet_mesh" \in Head(entries).keys
          THEN TetVolumeCmds(Head(entries).volumes) ELSE <<>>)
         \o TetEntryCmds(Tail(entries))

\* lines 184-197
CreateTetMesh(entries) ==
    << Cmd("Trimesher volume gradation 1.3", <<>>, <<>>, 0),
       Cmd("volume all size auto factor 5", <<>>, <<>>, 0) >>
    \o TetEntryCmds(entries)

\* lines 273-287
ExportCmd(name, make_watertight) ==
    Cmd(IF make_watertight THEN "export dagmc make_watertight" ELSE "export dagmc",
        name, <<>>, 0)

\* SaveOutputFiles with the reset issued when the export fails as well
SaveOutputFilesFinally ==
    /\ pc = "save"
    /\ sidecar' = IF args.geometry_details_filename # None
                  THEN [written |-> TRUE, content |-> Json(files_with_tags)]
                  ELSE sidecar
    /\ IF args.h5m_filename = None
       THEN /\ cmds' = cmds \o << Cmd("set attribute on", <<>>, <<>>, 0),
                                  Cmd("reset", <<>>, <<>>, 0) >>
            /\ Raise("TypeError:Path")
       ELSE /\ cmds' = Append(cmds, Cmd("set attribute on", <<>>, <<>>, 0))
                       \o <<ExportCmd(args.h5m_filename, args.make_watertight)>>
                       \o CreateTetMesh(files_with_tags)
            /\ pc' = "reset"
            /\ err' = err
    /\ UNCHANGED <<args, files_with_tags, imported, kernel, all_vols, idx,
                   total_number_of_volumes, volume_mat_list, calls>>

\* lines 264-298
SaveOutputFiles ==
    /\ pc = "save"
    /\ sidecar' = IF args.geometry_details_filename # None
                  THEN [written |-> TRUE, content |-> Json(files_with_tags)]
                  ELSE sidecar
    /\ IF args.h5m_filename = None
       THEN \* line 270: Path(None)
            /\ cmds' = Append(cmds, Cmd("set attribute on", <<>>, <<>>, 0))
            /\ Raise("TypeError:Path")
       ELSE /\ cmds' = Append(cmds, Cmd("set attribute on", <<>>, <<>>, 0))
                       \o <<ExportCmd(args.h5m_filename, args.make_watertight)>>
                       \o CreateTetMesh(files_with_tags)
                       \o (IF args.exo_filename # None
                           THEN <<Cmd("export mesh", args.exo_filename, <<>>, 0)>>
                           ELSE <<>>)
                       \o (IF args.cubit_filename # None
                           THEN <<Cmd("save as", args.cubit_filename, <<>>, 0)>>
                           ELSE <<>>)
            /\ pc' = "reset"
            /\ err' = err
    /\ UNCHANGED <<args, files_with_tags, imported, kernel, all_vols, idx,
                   total_number_of_volumes, volume_mat_list, calls>>

\* line 179: cubit.cmd('reset') empties the kernel session
Reset ==
    /\ pc = "reset"
    /\ cmds' = Append(cmds, Cmd("reset", <<>>, <<>>, 0))
    /\ vols' = {}
    /\ last_id' = 0
    /\ shell' = {}
    /\ pc' = "done"
    /\ UNCHANGED <<args, files_with_tags, err, imported, live_surfaces, all_vols, idx,
                   total_number_of_volumes, volume_mat_list, sidecar, calls>>

\* ------------------------------------------------- the calls of the model
NoDuplicates(s) == \A i, j \in 1..Len(s) : i # j => s[i] # s[j]

\* the transforms dicts: every order of every subset of the three keys
KeyOrders == {s \in SeqsUpTo({"move", "scale", "rotate"}, 3) : NoDuplicates(s)}

TransformEntries ==
    { Entry(<<"a", ".step">>, TRUE, {"material_tag", "transforms"}, "fuel", o, m) :
        o \in {q \in KeyOrders : HasKey(q, "move")}, m \in MoveSpecs }
    \cup
    { Entry(<<"a", ".step">>, TRUE, {"material_tag", "transforms"}, "fuel", o, NoMove) :
        o \in {q \in KeyOrders : ~HasKey(q, "move")} }

Scaled == Entry(<<"a", ".stp">>, TRUE, {"transforms"}, NoneStr, <<"scale", "move">>,
                [shape |-> "all", vols |-> <<>>, nvecs |-> 1])

TetEntry == Entry(<<"a", "/", "a", ".stp">>, TRUE, {"material_tag", "tet_mesh"}, "fuel",
                  <<>>, NoMove)

Wedge == Entry(<<"a", ".stp">>, TRUE, {"material_tag", "surface_reflectivity"}, "fuel",
               <<>>, NoMove)

\* the entry that loads and tags without an error, and every entry
Loadable == {Tagged("fuel")}

Templates ==
    { Tagged("fuel"), Untagged, Tagged(Tag28), Wedge,
      Entry(<<"a", ".h5m">>, TRUE, {"material_tag"}, "fuel", <<>>, NoMove),
      Entry(<<"a", ".stp">>, FALSE, {"material_tag"}, "fuel", <<>>, NoMove),
      Entry(<<"a">>, FALSE, {}, NoneStr, <<>>, NoMove) }

\* the lists of at most MaxEntries entries: loadable entries, then any entry
\* (the entries after one that fails to load are never read)
EntryLists ==
    {<<>>} \cup
    { Append(p, t) : p \in SeqsUpTo(Loadable, MaxEntries - 1), t \in Templates }

OutputNames == SeqsUpTo(NameAlphabet, MaxNameLen) \cup {None}

Call(a, f) == [args |-> a, files |-> f]

\* every output file name, with and without a sidecar file
NameCalls ==
    { Call([DefArgs EXCEPT !.h5m_filename = n, !.geometry_details_filename = d],
           <<Tagged("fuel")>>) :
        n \in OutputNames, d \in {None, <<"details">>} }

\* the other output options
OutputCalls ==
    { Call([DefArgs EXCEPT !.exo_filename = e, !.cubit_filename = c,
                           !.cubit_importable = i, !.verbose = v,
                           !.make_watertight = w], <<f>>) :
        e \in {None, <<"a", ".exo">>, <<"a", ".h5m">>},
        c \in {None, <<"a", ".cub">>, <<"a", ".cub5">>, <<"a", ".exo">>},
        i \in BOOLEAN, v \in BOOLEAN, w \in BOOLEAN, f \in {Tagged("fuel"), TetEntry} }

\* calls that end in each of the other stages
OtherCalls ==
    { Call([DefArgs EXCEPT !.imprint = FALSE], <<f>>) : f \in {Tagged("fuel"), Untagged} }
    \cup
    { Call(DefArgs, <<Untagged, Tagged("fuel")>>),
      Call(DefArgs, <<Scaled, Untagged>>),
      Call([DefArgs EXCEPT !.h5m_filename = None], <<Untagged>>),
      Call([DefArgs EXCEPT !.h5m_filename = <<"a">>], <<Untagged>>),
      Call([DefArgs EXCEPT !.cubit_importable = FALSE], <<Untagged>>),
      Call([DefArgs EXCEPT !.verbose = FALSE, !.geometry_details_filename = <<"details">>],
           <<TetEntry>>),
      Call(DefArgs, <<Entry(<<"a", ".stp">>, TRUE, {"transforms"}, NoneStr, <<"move">>,
                            [shape |-> "each", vols |-> <<1>>, nvecs |-> 2])>>) }

\* every list of entries
EntryCalls == {Call(DefArgs, f) : f \in EntryLists} \cup OtherCalls

\* every transforms dict, alone and after another entry with transforms
TransformCalls ==
    { Call([DefArgs EXCEPT !.geometry_details_filename = <<"details">>], f) :
        f \in {<<t>> : t \in TransformEntries} \cup {<<Scaled, t>> : t \in TransformEntries} }

\* the graveyard and the implicit complement
GraveyardCalls ==
    { Call([DefArgs EXCEPT !.graveyard = <<10>>,
                           !.implicit_complement_material_tag = ic], f) :
        ic \in {NoneStr, "vacuum"},
        f \in { <<Tagged("fuel")>>, <<Untagged>>, <<Tagged("Graveyard")>>,
                <<Tagged("fuel"), Untagged>>, <<Untagged, Tagged("fuel")>> } }
    \cup
    { Call([DefArgs EXCEPT !.implicit_complement_material_tag = "vacuum"], <<Tagged(t)>>) :
        t \in {"graveyard", "GRAVEYARD", Tag27} }

\* the state at the start of a cad_to_h5m call, the kernel session empty
Start(callset) ==
    /\ \E c \in callset : args = c.args /\ files_with_tags = c.files
    /\ pc = "validate"
    /\ err = "none"
    /\ cmds = <<>>
    /\ imported = FALSE
    /\ vols = {}
    /\ last_id = 0
    /\ shell = {}
    /\ all_vols = {}
    /\ idx = 1
    /\ total_number_of_volumes = 0
    /\ volume_mat_list = <<>>
    /\ sidecar = [written |-> FALSE, content |-> <<>>]
    /\ live_surfaces = {}
    /\ calls = 0

Init == Start(EntryCalls)

InitNames == Start(NameCalls \cup OutputCalls)

InitTransforms == Start(TransformCalls)

InitGraveyard == Start(GraveyardCalls)

Next ==
    \/ Validate
    \/ InitKernel
    \/ LoadEntry
    \/ LoadFinish
    \/ ApplyTransforms
    \/ TagGeometry
    \/ ImprintMerge
    \/ FindReflectingStage
    \/ SaveOutputFiles
    \/ Reset

\* one cad_to_h5m call, for every list of entries
Spec == Init /\ [][Next]_vars

\* one cad_to_h5m call, for every output file name
SpecNames == InitNames /\ [][Next]_vars

\* one cad_to_h5m call, for every transforms dict
SpecTransforms == InitTransforms /\ [][Next]_vars

\* one cad_to_h5m call with a graveyard or an implicit complement
SpecGraveyard == InitGraveyard /\ [][Next]_vars

\* ---------------------------------------- direct calls of the reconciliation
Items == [id : 1..MaxSurface, reflector : BOOLEAN]

\* the surface_reflectivity dicts: at most one item per surface
Records ==
    { r \in SeqsUpTo(Items, MaxSurface) :
        \A i, j \in 1..Len(r) : i # j => r[i].id # r[j].id }

WedgeWith(record) ==
    [ Entry(<<"a", ".stp">>, TRUE, {"material_tag", "surface_reflectivity"}, "fuel",
            <<>>, NoMove)
      EXCEPT !.volumes = <<"1">>, !.surface_reflectivity = record ]

\* a loaded wedge entry with any record, the wedge volume with any surfaces
InitReflect ==
    /\ args = DefArgs
    /\ \E r \in Records : files_with_tags = <<WedgeWith(r)>>
    /\ live_surfaces \in SUBSET (1..MaxSurface)
    /\ pc = "direct"
    /\ err = "none"
    /\ cmds = <<>>
    /\ imported = TRUE
    /\ vols = {1}
    /\ last_id = 1
    /\ shell = {}
    /\ all_vols = {1}
    /\ idx = 1
    /\ total_number_of_volumes = 0
    /\ volume_mat_list = <<>>
    /\ sidecar = [written |-> FALSE, content |-> <<>>]
    /\ calls = 0

NextReflect == DirectCall

SpecReflect == InitReflect /\ [][NextReflect]_vars

\* ================================================================ claims
IsMatGroup(c) == c.op = "group" /\ Len(c.name) > 0 /\ c.name[1] = "mat:"

Positions(op) == {j \in 1..Len(cmds) : cmds[j].op = op}

IdSet(vs) == {ParseInt(vs[i]) : i \in 1..Len(vs)}

\* C1: a call whose h5m_filename does not end in ".h5m" ends in the
\* invalid-output-extension ValueError at validation, before cubit is
\* imported or initialised and before any command is issued.
C1_RejectedBeforeKernel ==
    ( /\ args.h5m_filename # None
      /\ ~EndsWith(args.h5m_filename, ".h5m")
      /\ pc # "validate" )
    => (err = "ValueError:h5m_filename" /\ ~imported /\ cmds = <<>>)

\* C2: when tagging fails with the tag-too-long ValueError, the kernel has
\* received no 'group "mat:..."' command at all.
C2_NoGroupOnTagError ==
    err = "ValueError:material_tag" => \A j \in 1..Len(cmds) : ~IsMatGroup(cmds[j])

FirstTooLong ==
    CHOOSE k \in 1..Len(files_with_tags) :
        /\ "material_tag" \in files_with_tags[k].keys
        /\ Len(files_with_tags[k].material_tag) > 27
        /\ \A i \in 1..(k - 1) :
               ~( "material_tag" \in files_with_tags[i].keys
                  /\ Len(files_with_tags[i].material_tag) > 27 )

\* C2 (amended): when tagging fails with the tag-too-long ValueError, no
\* 'group "mat:..."' command has been issued for the entry with the long tag
\* or for a later one: every such command issued is for the volumes of an
\* entry before it, and every entry before it has its command.
C2_NoGroupForLongTag ==
    err = "ValueError:material_tag" =>
        /\ \A j \in 1..Len(cmds) :
               IsMatGroup(cmds[j]) =>
                   /\ Len(cmds[j].name[2]) <= 27
                   /\ \E i \in 1..(FirstTooLong - 1) :
                          IdSet(cmds[j].vols) \subseteq IdSet(files_with_tags[i].volumes)
        /\ \A i \in 1..(FirstTooLong - 1) :
               \E j \in 1..Len(cmds) :
                   /\ IsMatGroup(cmds[j])
                   /\ IdSet(cmds[j].vols) \subseteq IdSet(files_with_tags[i].volumes)

\* a long tag met after an entry that was tagged
C2_Witness ==
    /\ err = "ValueError:material_tag"
    /\ FirstTooLong = 2
    /\ \E j \in 1..Len(cmds) : IsMatGroup(cmds[j])

\* C3: in every iteration of the loader that imports a file, the volumes
\* recorded for the entry are the difference between the snapshot before the
\* import and the snapshot after the optional unite, every recorded ID is live
\* in the snapshot after the unite and none was live before the import, and
\* an entry with a material tag records a single volume.
C3_RecordedAfterUnite ==
    [][ (pc = "load" /\ Len(cmds') > Len(cmds) /\ idx <= Len(files_with_tags)) =>
          LET entry == files_with_tags'[idx]
              recorded == IdSet(entry.volumes)
          IN  /\ recorded = (vols' \ vols) \cup (vols \ vols')
              /\ Len(entry.volumes) = Cardinality(recorded)
              /\ recorded \subseteq all_vols'
              /\ recorded \cap vols = {}
              /\ "material_tag" \in entry.keys => Cardinality(recorded) = 1 ]_vars

\* three volumes united into one whose ID is none of the three
C3_Witness ==
    /\ pc = "load"
    /\ idx = 2
    /\ \E j \in Positions("unite") :
           /\ Len(cmds[j].vols) = 3
           /\ Len(files_with_tags[1].volumes) = 1
           /\ IdSet(files_with_tags[1].volumes) \cap IdSet(cmds[j].vols) = {}
           /\ IdSet(files_with_tags[1].volumes) \subseteq all_vols

\* C4: once the reconciliation has run on an entry, running it again with the
\* live surface set unchanged leaves the entry's surface_reflectivity record
\* as the run before left it and issues no further command.
C4_Idempotent ==
    [][ (pc = "direct" /\ calls >= 1) =>
          (files_with_tags' = files_with_tags /\ cmds' = cmds) ]_vars

\* C5: with a graveyard side length L, once tagging is over the kernel has
\* been asked for a brick of side L, then one of side L + 5, then the
\* subtraction, and exactly one volume is in the "mat:Graveyard" group: the
\* hollow shell the subtraction of the first brick from the second left.
C5_ShellTagged ==
    ( /\ args.graveyard # <<>>
      /\ pc \in {"clean", "reflect", "save", "reset"}
      /\ \A i \in 1..Len(files_with_tags) :
             Lower(files_with_tags[i].material_tag) # "graveyard" )
    => LET graveyards == {j \in 1..Len(cmds) : cmds[j].name = <<"mat:", "Graveyard">>}
       IN  /\ \E i, o \in Positions("create brick x"), sub \in Positions("subtract") :
                  /\ i < o /\ o < sub
                  /\ cmds[i].num = args.graveyard[1]
                  /\ cmds[o].num = args.graveyard[1] + 5
           /\ Cardinality(graveyards) = 1
           /\ \A g \in graveyards : shell # {} /\ IdSet(cmds[g].vols) = shell

\* the call of the end-to-end scenario: one file tagged "fuel", scaled by 2
C6_Scenario ==
    /\ Len(files_with_tags) = 1
    /\ files_with_tags[1].keys = {"material_tag", "transforms"}
    /\ files_with_tags[1].material_tag = "fuel"
    /\ files_with_tags[1].transforms = <<"scale">>
    /\ args.graveyard = <<>>
    /\ args.geometry_details_filename # None

\* the import of the scenario produced three volumes
C6_ThreeImported == \E j \in Positions("unite") : Len(cmds[j].vols) = 3

C6_Exported ==
    /\ err = "none"
    /\ \E j \in Positions("scale") : cmds[j].num = 2
    /\ \E j \in 1..Len(cmds) :
           /\ cmds[j].op \in {"export dagmc", "export dagmc make_watertight"}
           /\ cmds[j].name = args.h5m_filename
    /\ PathSuffix(args.h5m_filename) = <<".h5m">>
    /\ sidecar.written
    /\ Len(sidecar.content) = 1
    /\ sidecar.content[1].material_tag = "fuel"

\* C6: in the end-to-end scenario the call does not fail, and when it is done
\* the export to the .h5m path has been issued and the sidecar has one entry,
\* tagged "fuel", with a volume list of 3 elements.
C6_EndToEnd ==
    C6_Scenario =>
        /\ pc # "raised"
        /\ (pc = "done" /\ C6_ThreeImported) =>
               (C6_Exported /\ Len(sidecar.content[1].volumes) = 3)

\* C6 (amended): as C6, with a volume list of 1 element, the volume the
\* three imported volumes were united into.
C6_EndToEndUnited ==
    C6_Scenario =>
        /\ pc # "raised"
        /\ (pc = "done" /\ C6_ThreeImported) =>
               (C6_Exported /\ Len(sidecar.content[1].volumes) = 1)

C6_Witness == C6_Scenario /\ pc = "done" /\ C6_ThreeImported /\ C6_Exported

RECURSIVE TransformOps(_)
TransformOps(cs) ==
    IF cs = <<>> THEN <<>>
    ELSE (IF Head(cs).op \in {"move", "scale", "rotate"} THEN <<Head(cs).op>> ELSE <<>>)
         \o TransformOps(Tail(cs))

\* the commands a present sub-transform stands for: a move given as a list
\* of vectors is one move command per vector
C7_Times(entry, key) ==
    IF key = "move" /\ entry.move.shape = "each" THEN entry.move.nvecs ELSE 1

RECURSIVE C7_EntryOps(_, _)
C7_EntryOps(entry, order) ==
    IF order = <<>> THEN <<>>
    ELSE [i \in 1..C7_Times(entry, Head(order)) |-> Head(order)]
         \o C7_EntryOps(entry, Tail(order))

\* the transform commands expected of the entries from position i on;
\* priority: in the order move, scale, rotate; else in the order of the keys
RECURSIVE C7_Expected(_, _)
C7_Expected(i, priority) ==
    IF i > Len(files_with_tags) THEN <<>>
    ELSE LET entry == files_with_tags[i]
             order == IF "transforms" \notin entry.keys THEN <<>>
                      ELSE IF priority
                      THEN SelectSeq(<<"move", "scale", "rotate">>,
                                     LAMBDA k : HasKey(entry.transforms, k))
                      ELSE entry.transforms
         IN  C7_EntryOps(entry, order) \o C7_Expected(i + 1, priority)

\* one auto-heal after the loader's commands, after every transform command
\* and before every material group
C7_OneHealAfter ==
    \E v \in Positions("validate vol all") :
        LET heals == {h \in Positions("healer autoheal vol all") : h > v}
        IN  /\ Cardinality(heals) = 1
            /\ \A h \in heals, j \in 1..Len(cmds) :
                   /\ cmds[j].op \in {"move", "scale", "rotate"} => (v < j /\ j < h)
                   /\ IsMatGroup(cmds[j]) => h < j

C7_Transformed == pc \in {"tag", "clean", "reflect", "save", "reset", "done"}

\* C7: once apply_transforms is over, the transform commands issued are,
\* entry by entry, the present sub-transforms in the order move, scale,
\* rotate, each once, and one auto-heal follows them all.
C7_FixedOrder ==
    C7_Transformed => (TransformOps(cmds) = C7_Expected(1, TRUE) /\ C7_OneHealAfter)

\* C7 (amended): once apply_transforms has returned, the transform commands
\* issued are, entry by entry, the present sub-transforms in the order of the
\* keys of the entry's transforms dict, each once (a move given as a list of
\* vectors being one command per vector), and one auto-heal follows them all.
C7_KeyOrder ==
    C7_Transformed => (TransformOps(cmds) = C7_Expected(1, FALSE) /\ C7_OneHealAfter)

\* two entries transformed, the second with the keys rotate, scale, move
C7_Witness ==
    /\ pc = "tag"
    /\ Len(files_with_tags) = 2
    /\ files_with_tags[2].transforms = <<"rotate", "scale", "move">>
    /\ files_with_tags[2].move.shape = "each"
    /\ TransformOps(cmds) = <<"scale", "move", "rotate", "scale", "move", "move">>

\* C8: once the cleaning stage is over, no imprint or merge command has been
\* issued if the kernel held exactly one volume after loading, and if it held
\* more than one the merge commands have been issued, after the imprint
\* command when the imprint flag is set.
C8_OnlyWhenSeveral ==
    pc \in {"reflect", "save", "reset", "done"} =>
        /\ Cardinality(all_vols) = 1 =>
               /\ Positions("imprint body all") = {}
               /\ Positions("merge tolerance") = {}
               /\ Positions("merge vol all group_results") = {}
        /\ Cardinality(all_vols) > 1 =>
               /\ \E t \in Positions("merge tolerance"),
                     m \in Positions("merge vol all group_results") : t < m
               /\ args.imprint =>
                      \E i \in Positions("imprint body all") :
                          \A t \in Positions("merge tolerance") : i < t
               /\ ~args.imprint => Positions("imprint body all") = {}

C9_Exports == Positions("export dagmc") \cup Positions("export dagmc make_watertight")

\* the commands of the stages, in the order of the stages
C9_StagesInOrder ==
    \E v \in Positions("validate vol all"), a \in Positions("set attribute on"),
       e \in C9_Exports :
        /\ \A j \in 1..Len(cmds) :
               /\ cmds[j].op \in {"import step", "import acis", "unite"} => j < v
               /\ cmds[j].op \in {"move", "scale", "rotate"} => v < j
               /\ IsMatGroup(cmds[j]) =>
                      /\ j < a
                      /\ \A t \in 1..Len(cmds) :
                             /\ cmds[t].op \in {"move", "scale", "rotate"} => t < j
                             /\ cmds[t].op \in {"imprint body all", "merge tolerance"} => j < t
               /\ cmds[j].op \in {"imprint body all", "merge tolerance",
                                  "merge vol all group_results"} => j < a
        /\ a < e
        /\ e < Len(cmds)

\* C9: a reset command is the last command of the call and is issued only
\* when every stage has completed, in the order of the stages; a call that
\* raised has issued no reset and the volumes it loaded are still live.
C9_ResetOnlyOnSuccess ==
    /\ \A j \in Positions("reset") : j = Len(cmds) /\ pc = "done" /\ err = "none"
    /\ pc = "done" => (cmds[Len(cmds)].op = "reset" /\ C9_StagesInOrder)
    /\ pc = "raised" =>
           /\ err # "none"
           /\ Positions("reset") = {}
           /\ \A i \in 1..Len(files_with_tags) :
                  IdSet(files_with_tags[i].volumes) \subseteq vols

\* a call that ended with the reset, after a merge
C9_Witness ==
    /\ pc = "done"
    /\ cmds[Len(cmds)].op = "reset"
    /\ Positions("merge vol all group_results") # {}
    /\ Len(files_with_tags) = 2

C10_Unsupported(name) ==
    ~(EndsWith(name, ".stp") \/ EndsWith(name, ".step") \/ EndsWith(name, ".sat"))

\* the loader has come to entry i: it loaded it or raised at it
C10_Reached(i) == imported /\ (idx > i \/ (idx = i /\ pc = "raised"))

C10_Imports == Positions("import step") \cup Positions("import acis")

\* the loader raised e at entry i, before its import, the earlier imports kept
C10_RaisedAt(i, e) ==
    /\ pc = "raised"
    /\ idx = i
    /\ err = e
    /\ Cardinality(C10_Imports) = i - 1
    /\ \A k \in 1..(i - 1) :
           /\ files_with_tags[k].volumes # <<>>
           /\ IdSet(files_with_tags[k].volumes) \subseteq vols

\* C10: an entry the loader comes to whose path ends in none of .stp, .step,
\* .sat ends the run with the unsupported-format error, and one whose path
\* does not exist ends it with the file-not-found error, in both cases before
\* the entry's import command and with the earlier imports left in place.
C10_LoaderErrors ==
    \A i \in 1..Len(files_with_tags) :
        C10_Reached(i) =>
            /\ C10_Unsupported(files_with_tags[i].cad_filename) =>
                   C10_RaisedAt(i, "ValueError:unsupported_format")
            /\ ~files_with_tags[i].is_file => C10_RaisedAt(i, "FileNotFoundError")

\* C10 (amended): as C10, the file-not-found error being raised for a path
\* that ends in .stp, .step or .sat and is not an existing file.
C10_LoaderErrorsInOrder ==
    \A i \in 1..Len(files_with_tags) :
        C10_Reached(i) =>
            /\ C10_Unsupported(files_with_tags[i].cad_filename) =>
                   C10_RaisedAt(i, "ValueError:unsupported_format")
            /\ ( /\ ~C10_Unsupported(files_with_tags[i].cad_filename)
                 /\ ~files_with_tags[i].is_file ) => C10_RaisedAt(i, "FileNotFoundError")

\* a missing file met after an entry that was imported
C10_Witness ==
    /\ C10_RaisedAt(2, "FileNotFoundError")
    /\ vols # {}

\* the loader has imported entry i and grouped its volumes under the file name
C11_Imported(i) ==
    /\ imported
    /\ idx >= i
    /\ files_with_tags[i].volumes # <<>>

\* C11: for an entry that declares the reflecting-surface feature (the key
\* "surface_reflectivity"), loading the entry succeeds: once its file is
\* imported the loader goes on to the next entry with a classification
\* recorded, and no error is raised at the entry.
C11_WedgeLoads ==
    \A i \in 1..Len(files_with_tags) :
        ( /\ "surface_reflectivity" \in files_with_tags[i].keys
          /\ C11_Imported(i) )
        => (idx > i /\ err = "none")

\* the sidecar file holds the pair: one of its entries lists the pair's
\* volumes under the pair's material tag
C12_InSidecar(pair) ==
    \E i \in 1..Len(sidecar.content) :
        /\ "material_tag" \in sidecar.content[i].keys
        /\ sidecar.content[i].material_tag = pair.material_tag
        /\ \A k \in 1..Len(pair.volumes) :
               \E m \in 1..Len(sidecar.content[i].volumes) :
                   sidecar.content[i].volumes[m] = pair.volumes[k]

\* C12: the volume-material list built by tag_geometry_with_mats is the
\* provenance record written to the sidecar file: when a sidecar filename is
\* configured, the written JSON contains every (volumes, material tag) pair
\* of the list.
C12_PairsInSidecar ==
    sidecar.written =>
        \A j \in 1..Len(volume_mat_list) : C12_InSidecar(volume_mat_list[j])

\* C13: after find_reflecting_surfaces_of_reflecting_wedge has reconciled the
\* wedge entry, the call has raised no error and every key of the entry's
\* record is a surface of the live surface set of the wedge volume, whatever
\* its reflector flag was.
C13_StaleDropped ==
    calls > 0 =>
        /\ err = "none"
        /\ Keys(files_with_tags[1].surface_reflectivity) \subseteq live_surfaces

\* the 'group "mat:<tag>"' commands issued for the input entries (not the
\* "Graveyard" group of the synthesised shell nor the "_comp" groups)
C14_EntryGroups ==
    { j \in 1..Len(cmds) :
        /\ IsMatGroup(cmds[j])
        /\ Len(cmds[j].name) = 2
        /\ cmds[j].name[2] # "Graveyard" }

\* C14: every 'group "mat:<tag>"' command issued for an input entry carries
\* a tag of at most 27 characters, whether the tag was declared on the entry
\* or derived from the kernel's entity name.
C14_TagsWithinLimit ==
    \A j \in C14_EntryGroups : Len(cmds[j].name[2]) <= TagLimit

====
